---- MODULE Spec2Model ----
(***************************************************************************)
(* Model of the Gemini chat client: main() of gemini.py driving            *)
(* Client.start_chat() of lib/gemini_tool.py, with the history file        *)
(* chat/history/<title>.json and the side file chat/response.csv.          *)
(*                                                                         *)
(* A Python str that the program composes (the f-string prompt) is a       *)
(* sequence of text segments; a str that the program only passes around    *)
(* (a title, the typed text, a response) is one segment.                   *)
(***************************************************************************)
EXTENDS Integers, Sequences, FiniteSets, TLC

(* ------------------------------ bounds -------------------------------- *)
\* largest configured `questions`
MaxQuestions == 2
\* largest configured `context_window`
MaxWindow == 2
\* number of times the program is run, one after the other, on the same disk
MaxRuns == 2
\* prompts the user types in all, over every run
MaxPrompts == 3

(* ------------------------------ inputs -------------------------------- *)
\* chat titles the user may type
Titles == {"demo"}
\* prompt texts the user may type
Texts == {"Exit", "hi"}
\* Python's None: a value distinct from every str of the model
None == "<None>"
\* values of response.text of a response object
ResponseTexts == {None, "hello"}
\* `questions` values a Client may be constructed with
QuestionsRange == 0..MaxQuestions
\* `context_window` values a Client may be constructed with
WindowRange == 0..MaxWindow

(* --------------------------- python values ---------------------------- *)
\* a dict key: an int key n is held by its decimal digits and its type
IntKey(n) == [type |-> "int", val |-> ToString(n)]
StrKey(s) == [type |-> "str", val |-> s]

\* a (key, value) pair of history.items()
Item(k, v) == [key |-> k, value |-> v]
TurnValue(p, r) == [prompt |-> p, response |-> r]
IsTurn(item) == DOMAIN item.value = {"prompt", "response"}

\* self.history before start_chat has assigned it
NoHistory == [title |-> "", history_index |-> 0, turns |-> <<>>]

\* len(self.history): the two bookkeeping keys and the turn keys
DictLen(h) == 2 + Len(h.turns)

\* dict.update({key: value}): an existing key keeps its place, a new key is
\* appended
DictSet(turns, k, v) ==
    IF \E i \in DOMAIN turns : turns[i].key = k
    THEN [i \in DOMAIN turns |-> IF turns[i].key = k THEN Item(k, v) ELSE turns[i]]
    ELSE Append(turns, Item(k, v))

\* list(self.history.items())
Items(h) ==
    << Item(StrKey("title"), [str |-> h.title]),
       Item(StrKey("history_index"), [int |-> h.history_index]) >> \o h.turns

\* seq[start:] of Python, start possibly negative
SliceFrom(seq, start) ==
    LET n == Len(seq)
        s == IF start < 0
             THEN (IF n + start < 0 THEN 0 ELSE n + start)
             ELSE (IF start > n THEN n ELSE start)
    IN  SubSeq(seq, s + 1, n)

\* self.context[-self.context_window:]
ContextSlice(ctx, window) == SliceFrom(ctx, 0 - window)

(* ------------------------------ strings ------------------------------- *)
\* str.lower() of one segment
LowerText(s) ==
    CASE s = "Exit" -> "exit"
      [] s = "EXIT" -> "exit"
      [] s = "None" -> "none"
      [] s = "No response received." -> "no response received."
      [] s = "Instruction: check the chat history for context only" ->
             "instruction: check the chat history for context only"
      [] OTHER -> s

\* str.lower() of a composed str
Lower(str) == [i \in DOMAIN str |-> LowerText(str[i])]

\* repr() of a dict key
ReprKey(k) == IF k.type = "int" THEN k.val ELSE "'" \o k.val \o "'"

\* repr() of a str or None
ReprText(s) == IF s = None THEN "None" ELSE "'" \o s \o "'"

\* repr() of one (key, value) pair
ReprItem(item) ==
    IF IsTurn(item)
    THEN <<ReprKey(item.key)>> \o item.value.prompt \o <<ReprText(item.value.response)>>
    ELSE IF DOMAIN item.value = {"str"}
         THEN <<ReprKey(item.key), ReprText(item.value.str)>>
         ELSE <<ReprKey(item.key), ToString(item.value.int)>>

RECURSIVE ReprList(_)
\* repr() of a list of pairs
ReprList(items) ==
    IF items = <<>> THEN <<>>
    ELSE ReprItem(Head(items)) \o ReprList(Tail(items))

\* the f-string of start_chat
FormatPrompt(slice, text) ==
    <<"chat history: ">> \o ReprList(slice)
      \o <<"Instruction: check the chat history for context only", "prompt: ">>
      \o <<text>>

\* the literal "exit"
ExitLiteral == <<"exit">>

(* ------------------------------- files -------------------------------- *)
Absent == [kind |-> "absent"]
EmptyFile == [kind |-> "empty"]
Malformed == [kind |-> "malformed"]
JsonFile(obj) == [kind |-> "json", object |-> obj]
TextFile(s) == [kind |-> "text", text |-> s]

\* json.dump(self.history, f): every key of a JSON object is a string
JsonDump(h) ==
    [title |-> h.title,
     history_index |-> h.history_index,
     turns |-> [i \in DOMAIN h.turns |->
                   Item(StrKey(h.turns[i].key.val), h.turns[i].value)]]

RECURSIVE JsonTurns(_, _)
\* the pairs of a JSON object read in order into a dict
JsonTurns(pairs, acc) ==
    IF pairs = <<>> THEN acc
    ELSE JsonTurns(Tail(pairs), DictSet(acc, Head(pairs).key, Head(pairs).value))

\* defaultdict(dict, json.load(f))
JsonLoad(obj) ==
    [title |-> obj.title,
     history_index |-> obj.history_index,
     turns |-> JsonTurns(obj.turns, <<>>)]

\* mutant: the history is not written on this turn
SaveHistory_skipped(d, title, h) == d

\* save_history: the file of the title is replaced by the dump
SaveHistory(d, title, h) == [d EXCEPT ![title] = JsonFile(JsonDump(h))]

\* history_file.is_file() and history_file.stat().st_size > 0
HasRecord(file) == file.kind \in {"json", "malformed"}

\* mutant: the fresh history is not given the requested title
FreshHistory_untitled(title) == [title |-> "", history_index |-> 0, turns |-> <<>>]

\* the else branch of load_history
FreshHistory(title) == [title |-> title, history_index |-> 0, turns |-> <<>>]

\* load_history, for a file json.load can parse
LoadHistory(file, title) ==
    IF HasRecord(file) THEN JsonLoad(file.object) ELSE FreshHistory(title)

(* --------------------------- remote model ----------------------------- *)
\* what models.generate_content may return: a falsy value, or a response
\* object with a text attribute
RemoteResults ==
    {[truthy |-> FALSE]} \cup {[truthy |-> TRUE, text |-> t] : t \in ResponseTexts}

\* the wrapper of process_response
ProcessResponse(r) == IF r.truthy THEN r.text ELSE "No response received."

(* ---------------------------- turn limit ------------------------------ *)
\* mutant: the turn is stored before the counter is incremented
NextIndex_stale(h) == h.history_index

\* mutant: the counter is incremented twice
NextIndex_byTwo(h) == h.history_index + 2

\* self.history["history_index"] += 1
NextIndex(h) == h.history_index + 1

\* mutant: the coercion tests < 0
CoerceQuestions_negative(q) == IF q < 0 THEN 1 ELSE q

\* if self.questions < 1: self.questions = 1
CoerceQuestions(q) == IF q < 1 THEN 1 ELSE q

\* mutant: only one of the two bookkeeping keys is discounted
LimitReached_oneKey(h, q, start) == DictLen(h) - 1 = q + start

\* mutant: the limit is not offset by the index at session start
LimitReached_noOffset(h, q, start) == DictLen(h) - 2 = q

\* (len(self.history) - 2) == (self.questions + self.history_index)
LimitReached(h, q, start) == DictLen(h) - 2 = q + start

\* mutant: the status of update_history is ignored
ExitRequested_promptOnly(st, p) == Lower(p) = ExitLiteral

\* status == "exit" or prompt.lower() == "exit"
ExitRequested(st, p) == st = "exit" \/ Lower(p) = ExitLiteral

(* ------------------------------- main --------------------------------- *)
\* mutant: the first except clause catches everything
ExceptClause_catchAll(e) == "ended"

\* which except clause of main catches an exception
ExceptClause(e) == IF e = "SystemExit" THEN "ended" ELSE "critical"

\* mutant: the bare except re-raises
Escapes_reraise(e) == IF e = "SystemExit" THEN "none" ELSE e

\* the exception that leaves main after an except clause has run
Escapes(e) == "none"

(* ------------------------------- state -------------------------------- *)
VARIABLES
    pc,             \* position in main / start_chat
    runs,           \* runs of the program so far, this one included
    gemini,         \* "Client", or "Mock" for an injected MagicMock
    log,            \* calls on the log object in this run
    exc,            \* exception start_chat raised in main's try block
    escaped,        \* exception that left main
    questions_arg,  \* the `questions` the Client was constructed with
    questions,      \* self.questions
    context_window, \* self.context_window
    chat_title,     \* self.chat_title
    history,        \* self.history
    context,        \* self.context
    history_index,  \* self.history_index
    text,           \* the text typed at the prompt
    context_slice,  \* self.context[-self.context_window:] in the request
    prompt,         \* the request
    response,       \* the processed response
    status,         \* what update_history returned
    asked,          \* calls of update_history completed in this session
    prompts,        \* prompts typed so far, over every run
    disk,           \* chat/history/<title>.json, by title
    response_file   \* chat/response.csv

vars == << pc, runs, gemini, log, exc, escaped, questions_arg, questions,
           context_window,
           chat_title, history, context, history_index, text, context_slice,
           prompt, response, status, asked, prompts, disk, response_file >>

session == << chat_title, history, context, history_index, text,
              context_slice, prompt, response, status, asked >>

config == << gemini, questions_arg, questions, context_window >>

Info(m) == [level |-> "info", message |-> m]
Critical == [level |-> "critical", message |-> None]

Init ==
    /\ pc = "main"
    /\ runs = 1
    /\ gemini \in {"Client", "Mock"}
    /\ log = <<>>
    /\ exc = "none"
    /\ escaped = "none"
    /\ questions_arg \in QuestionsRange
    /\ questions = questions_arg
    /\ context_window \in WindowRange
    /\ chat_title = ""
    /\ history = NoHistory
    /\ context = <<>>
    /\ history_index = 0
    /\ text = ""
    /\ context_slice = <<>>
    /\ prompt = <<>>
    /\ response = ""
    /\ status = ""
    /\ asked = 0
    /\ prompts = 0
    /\ disk = [t \in Titles |-> Absent]
    /\ response_file = Absent

(* ------------------------------ actions ------------------------------- *)
\* mutant: main enters the try block without logging
LogStart_silent ==
    /\ pc = "main"
    /\ pc' = "try"
    /\ UNCHANGED << prompts, runs, log, exc, escaped, config, session, disk,
                    response_file >>

\* main: log.info("Starting Gemini Client...") and entry of the try block
LogStart ==
    /\ pc = "main"
    /\ log' = Append(log, Info("Starting Gemini Client..."))
    /\ pc' = "try"
    /\ UNCHANGED << prompts, runs, exc, escaped, config, session, disk, response_file >>

\* start_chat of an injected mock: returns, or raises its side effect
MockStartChat ==
    /\ pc = "try"
    /\ gemini = "Mock"
    /\ \E outcome \in {"none", "SystemExit", "Exception"} :
          /\ exc' = outcome
          /\ pc' = IF outcome = "none" THEN "return" ELSE "except"
    /\ UNCHANGED << prompts, runs, log, escaped, config, session, disk, response_file >>

\* start_chat up to the loop: the title is read and the history loaded
StartChat ==
    /\ pc = "try"
    /\ gemini = "Client"
    /\ \E title \in Titles :
          /\ chat_title' = title
          /\ IF disk[title] = Malformed
             THEN /\ exc' = "Exception"
                  /\ pc' = "except"
                  /\ UNCHANGED << history, context, history_index >>
             ELSE /\ history' = LoadHistory(disk[title], title)
                  /\ context' = Items(history')
                  /\ history_index' = history'.history_index
                  /\ pc' = "AwaitingPrompt"
                  /\ UNCHANGED exc
    /\ UNCHANGED << prompts, runs, log, escaped, config, text, context_slice, prompt,
                    response, status, asked, disk, response_file >>

\* input("Enter your prompt: ") and the f-string
ReadPrompt ==
    /\ pc = "AwaitingPrompt"
    /\ prompts < MaxPrompts
    /\ prompts' = prompts + 1
    /\ \E t \in Texts :
          /\ text' = t
          /\ context_slice' = ContextSlice(context, context_window)
          /\ prompt' = FormatPrompt(context_slice', t)
    /\ pc' = "Processing"
    /\ UNCHANGED << runs, log, exc, escaped, config, chat_title, history,
                    context, history_index, response, status, asked, disk,
                    response_file >>

\* input() raises (end of input, interrupt)
InputFails ==
    /\ pc = "AwaitingPrompt"
    /\ exc' = "Exception"
    /\ pc' = "except"
    /\ UNCHANGED << prompts, runs, log, escaped, config, session, disk, response_file >>

\* respond: the remote call returns
Respond ==
    /\ pc = "Processing"
    /\ \E r \in RemoteResults : response' = ProcessResponse(r)
    /\ pc' = "Responded"
    /\ UNCHANGED << prompts, runs, log, exc, escaped, config, chat_title, history,
                    context, history_index, text, context_slice, prompt,
                    status, asked, disk, response_file >>

\* mutant: the side file is opened for writing before the remote call
RespondFails_truncates ==
    /\ pc = "Processing"
    /\ response_file' = TextFile("")
    /\ exc' = "Exception"
    /\ pc' = "except"
    /\ UNCHANGED << prompts, runs, log, escaped, config, session, disk >>

\* respond: the remote call raises
RespondFails ==
    /\ pc = "Processing"
    /\ exc' = "Exception"
    /\ pc' = "except"
    /\ UNCHANGED << prompts, runs, log, escaped, config, session, disk, response_file >>

\* update_history, save_history included
UpdateHistory ==
    /\ pc = "Responded"
    /\ LET idx == NextIndex(history)
           turn == TurnValue(prompt, response)
           h == [history EXCEPT !.history_index = idx,
                                !.turns = DictSet(@, IntKey(idx), turn)]
           q == CoerceQuestions(questions)
       IN  /\ questions' = q
           /\ history' = h
           /\ context' = Append(context, Item(IntKey(idx), turn))
           /\ disk' = SaveHistory(disk, chat_title, h)
           /\ status' = IF LimitReached(h, q, history_index)
                        THEN "exit" ELSE "continue"
    /\ asked' = asked + 1
    /\ pc' = "Updated"
    /\ UNCHANGED << prompts, runs, gemini, log, exc, escaped, questions_arg,
                    context_window, chat_title, history_index, text, context_slice, prompt,
                    response, response_file >>

\* update_history when save_history raises: the open fails, or the file is
\* left truncated or partly written
SaveFails ==
    /\ pc = "Responded"
    /\ LET idx == NextIndex(history)
           turn == TurnValue(prompt, response)
       IN  /\ questions' = CoerceQuestions(questions)
           /\ history' = [history EXCEPT !.history_index = idx,
                                         !.turns = DictSet(@, IntKey(idx), turn)]
           /\ context' = Append(context, Item(IntKey(idx), turn))
    /\ \E f \in {disk[chat_title], EmptyFile, Malformed} :
          disk' = [disk EXCEPT ![chat_title] = f]
    /\ exc' = "Exception"
    /\ pc' = "except"
    /\ UNCHANGED << prompts, runs, gemini, log, escaped, questions_arg,
                    context_window, chat_title, history_index, text, context_slice, prompt, response,
                    status, asked, response_file >>

\* mutant: the exit status is acted on before the side file is written
WriteResponse_notOnExit ==
    /\ pc = "Updated"
    /\ IF response = None
       THEN /\ response_file' = TextFile("")
            /\ exc' = "Exception"
            /\ pc' = "except"
       ELSE /\ response_file' = IF status = "exit" THEN response_file
                                ELSE TextFile(response)
            /\ pc' = "Written"
            /\ UNCHANGED exc
    /\ UNCHANGED << prompts, runs, log, escaped, config, session, disk >>

\* chat/response.csv is opened for writing and the response written;
\* f.write(None) raises after the file was truncated
WriteResponse ==
    /\ pc = "Updated"
    /\ IF response = None
       THEN /\ response_file' = TextFile("")
            /\ exc' = "Exception"
            /\ pc' = "except"
       ELSE /\ response_file' = TextFile(response)
            /\ pc' = "Written"
            /\ UNCHANGED exc
    /\ UNCHANGED << prompts, runs, log, escaped, config, session, disk >>

\* the test that ends the loop; exit() raises SystemExit
CheckExit ==
    /\ pc = "Written"
    /\ IF ExitRequested(status, prompt)
       THEN /\ exc' = "SystemExit"
            /\ pc' = "Terminated"
       ELSE /\ pc' = "AwaitingPrompt"
            /\ UNCHANGED exc
    /\ UNCHANGED << prompts, runs, log, escaped, config, session, disk, response_file >>

\* main: except SystemExit
LogEnded ==
    /\ pc \in {"Terminated", "except"}
    /\ exc # "none"
    /\ ExceptClause(exc) = "ended"
    /\ log' = Append(log, Info("Chat ended successfully."))
    /\ escaped' = Escapes(exc)
    /\ pc' = "Done"
    /\ UNCHANGED << prompts, runs, exc, config, session, disk, response_file >>

\* main: the bare except
LogCritical ==
    /\ pc \in {"Terminated", "except"}
    /\ exc # "none"
    /\ ExceptClause(exc) = "critical"
    /\ log' = Append(log, Critical)
    /\ escaped' = Escapes(exc)
    /\ pc' = "Done"
    /\ UNCHANGED << prompts, runs, exc, config, session, disk, response_file >>

\* main: start_chat returned, main falls off its end
MainReturns ==
    /\ pc = "return"
    /\ pc' = "Done"
    /\ UNCHANGED << prompts, runs, log, exc, escaped, config, session, disk,
                    response_file >>

\* the program is run again: a new process constructs its Client as before,
\* the files are as they were left
NewRun ==
    /\ pc = "Done"
    /\ runs < MaxRuns
    /\ runs' = runs + 1
    /\ pc' = "main"
    /\ questions' = questions_arg
    /\ log' = <<>>
    /\ exc' = "none"
    /\ escaped' = "none"
    /\ chat_title' = ""
    /\ history' = NoHistory
    /\ context' = <<>>
    /\ history_index' = 0
    /\ text' = ""
    /\ context_slice' = <<>>
    /\ prompt' = <<>>
    /\ response' = ""
    /\ status' = ""
    /\ asked' = 0
    /\ UNCHANGED << prompts, gemini, questions_arg, context_window, disk,
                    response_file >>

Next ==
    \/ LogStart
    \/ MockStartChat
    \/ StartChat
    \/ ReadPrompt
    \/ InputFails
    \/ Respond
    \/ RespondFails
    \/ UpdateHistory
    \/ SaveFails
    \/ WriteResponse
    \/ CheckExit
    \/ LogEnded
    \/ LogCritical
    \/ MainReturns
    \/ NewRun

Spec == Init /\ [][Next]_vars

(* ------------------- sessions without outside failure ----------------- *)
\* a Client is constructed; the prompts the user will type suffice for a
\* whole session
LiveInit ==
    /\ Init
    /\ gemini = "Client"
    /\ CoerceQuestions(questions_arg) <= MaxPrompts

\* the program is run again while the prompts the user will still type
\* suffice for a whole session
LiveNewRun ==
    /\ prompts + CoerceQuestions(questions_arg) <= MaxPrompts
    /\ NewRun

\* the steps of the program when input() returns a prompt, the remote call
\* returns and save_history succeeds
LiveNext ==
    \/ LogStart
    \/ StartChat
    \/ ReadPrompt
    \/ Respond
    \/ UpdateHistory
    \/ WriteResponse
    \/ CheckExit
    \/ LogEnded
    \/ LogCritical
    \/ LiveNewRun

\* a single thread runs the program: each of its steps is taken once it is
\* enabled; the user need not run the program again
LiveSpec ==
    /\ LiveInit
    /\ [][LiveNext]_vars
    /\ WF_vars(LogStart)
    /\ WF_vars(StartChat)
    /\ WF_vars(ReadPrompt)
    /\ WF_vars(Respond)
    /\ WF_vars(UpdateHistory)
    /\ WF_vars(WriteResponse)
    /\ WF_vars(CheckExit)
    /\ WF_vars(LogEnded)
    /\ WF_vars(LogCritical)

(* ------------------------------ claims -------------------------------- *)
InLog(entry) == \E i \in DOMAIN log : log[i] = entry
Ended == Info("Chat ended successfully.")
Min(a, b) == IF a < b THEN a ELSE b

\* C1: in a session on a fresh history (turn index 0 at session start) with
\* limit L >= 1, update_history returns "continue" on each of the first L-1
\* completed turns and "exit" on exactly the L-th; no turn follows the L-th.
C1_TurnLimitFresh ==
    (pc = "Updated" /\ history_index = 0 /\ questions_arg >= 1) =>
        /\ asked <= questions_arg
        /\ asked < questions_arg => status = "continue"
        /\ asked = questions_arg => status = "exit"

\* C1 witness: the second turn of a fresh session with limit 2 returned "exit"
C1_Witness ==
    /\ pc = "Updated"
    /\ history_index = 0
    /\ questions_arg = 2
    /\ asked = 2
    /\ status = "exit"

\* C2 (as claimed): after a completed turn whose typed text is "exit" in any
\* letter case the session is Terminated, so it never awaits another prompt.
C2_ExitTextTerminates ==
    (pc = "AwaitingPrompt" /\ asked > 0) => LowerText(text) # "exit"

\* C3 (as claimed): the context slice embedded in the request has length
\* min(M, N), holds only Turn entries, and is the last min(M, N) turns of the
\* history in insertion order.
C3_SliceIsLastTurns ==
    pc = "Processing" =>
        LET M == Len(history.turns)
            n == Min(M, context_window)
        IN  /\ Len(context_slice) = n
            /\ \A i \in DOMAIN context_slice : IsTurn(context_slice[i])
            /\ context_slice = SubSeq(history.turns, M - n + 1, M)

\* C4 (as claimed): when update_history has saved the history, loading the
\* record of the same title gives back the history: same title, same
\* history_index, same turn keys and values in the same order.
C4_SaveLoadRoundTrip ==
    pc = "Updated" => LoadHistory(disk[chat_title], chat_title) = history

\* C5: loading a title that has no record, or an empty one, yields
\* history_index = 0, no turns and the requested title, and the load leaves
\* every record as it was.
C5_FreshLoad ==
    [][ (pc = "try" /\ pc' = "AwaitingPrompt" /\ ~HasRecord(disk[chat_title']))
          => /\ history'.history_index = 0
             /\ history'.turns = <<>>
             /\ history'.title = chat_title'
             /\ history_index' = 0
             /\ disk' = disk ]_vars

\* C5 witness: a session has just loaded a title whose record is empty
C5_Witness ==
    /\ pc = "AwaitingPrompt"
    /\ asked = 0
    /\ text = ""
    /\ disk[chat_title] = EmptyFile
    /\ history = [title |-> chat_title, history_index |-> 0, turns |-> <<>>]

\* C6: when main is done, a failure of the session was logged by
\* log.critical, a SystemExit by the message 'Chat ended successfully.', and
\* no run logs both.
C6_ErrorClassification ==
    /\ pc = "Done" =>
          /\ exc = "Exception" => InLog(Critical)
          /\ exc = "SystemExit" => InLog(Ended)
    /\ ~(InLog(Critical) /\ InLog(Ended))

\* C6 witness: the remote call of a turn failed and main logged it as critical
C6_Witness ==
    /\ pc = "Done"
    /\ gemini = "Client"
    /\ exc = "Exception"
    /\ prompt # <<>>
    /\ asked = 0
    /\ InLog(Critical)

\* C7: when update_history returns, the record of the title holds the title,
\* the current history_index and every turn of the history in memory, the
\* one just appended included.
C7_SavedEveryTurn ==
    pc = "Updated" =>
        /\ disk[chat_title].kind = "json"
        /\ LET saved == disk[chat_title].object
           IN  /\ saved.title = history.title
               /\ saved.history_index = history.history_index
               /\ Len(saved.turns) = Len(history.turns)
               /\ \A i \in DOMAIN history.turns :
                     /\ saved.turns[i].key.val = history.turns[i].key.val
                     /\ saved.turns[i].value = history.turns[i].value
               /\ saved.turns[Len(saved.turns)].value = TurnValue(prompt, response)

\* C7 witness: update_history returned "continue" and the record holds the turn
C7_Witness ==
    /\ pc = "Updated"
    /\ status = "continue"
    /\ disk[chat_title].kind = "json"
    /\ Len(disk[chat_title].object.turns) = asked

\* C8 (as claimed): while a turn is processed, from the reading of the prompt
\* on, the limit held by the session is >= 1.
C8_LimitCoercedBeforeTurn ==
    pc \in {"Processing", "Responded", "Updated", "Written"} => questions >= 1

\* C8 (amended): the limit is coerced by update_history itself: once an
\* update_history call of the session has returned, the limit is >= 1, and
\* it is 1 when the configured limit was <= 0.
C8_LimitCoercedByUpdate ==
    asked >= 1 =>
        /\ questions >= 1
        /\ questions_arg <= 0 => questions = 1
        /\ questions_arg >= 1 => questions = questions_arg

\* C8 witness: a client configured with limit 0 has completed a turn
C8_Witness ==
    /\ questions_arg = 0
    /\ asked = 1
    /\ questions = 1
    /\ status = "exit"

\* C9 (as claimed): a failure of the session is logged as critical and the
\* process ends with failure status, that is, the failure leaves main; a
\* graceful termination ends with success status.
C9_FailureStatus ==
    pc = "Done" =>
        /\ exc = "Exception" => (InLog(Critical) /\ escaped # "none")
        /\ exc = "SystemExit" => escaped = "none"

\* C9 (amended): a failure of the session is logged as critical, and main
\* then returns as it does after a graceful termination: nothing leaves main.
C9_FailureLoggedAndSwallowed ==
    pc = "Done" =>
        /\ exc = "Exception" => InLog(Critical)
        /\ escaped = "none"

\* C9 witness: a session failed on a malformed history file and main is done
C9_Witness ==
    /\ pc = "Done"
    /\ exc = "Exception"
    /\ chat_title # ""
    /\ disk[chat_title] = Malformed
    /\ prompt = <<>>
    /\ InLog(Critical)
    /\ escaped = "none"

\* C10 (as claimed): the response of every stored turn and the text of the
\* side file are a non-empty text or the sentinel, never None or empty.
C10_NoEmptyResponse ==
    /\ \A i \in DOMAIN history.turns :
          history.turns[i].value.response \notin {None, ""}
    /\ response_file # Absent => response_file.text \notin {None, ""}

\* the turn keys of a sequence of turns, read as numbers, are 1, 2, ... in
\* order
KeysAreRange(turns) == \A i \in DOMAIN turns : turns[i].key.val = ToString(i)

\* C11: in every state, over every save, load and resumption, the turn keys
\* of the history in memory and of the saved record are exactly 1..turnIndex
\* without duplicates, and turnIndex is the number of stored turns.
C11_KeysContiguous ==
    /\ KeysAreRange(history.turns)
    /\ history.history_index = Len(history.turns)
    /\ \A t \in Titles :
          disk[t].kind = "json" =>
              /\ KeysAreRange(disk[t].object.turns)
              /\ disk[t].object.history_index = Len(disk[t].object.turns)

\* C11 witness: a resumed session has added a turn to a loaded history, so
\* the history holds a key read from the file and a key made by the program
C11_Witness ==
    /\ runs = 2
    /\ pc = "Updated"
    /\ Len(history.turns) = 2
    /\ history.turns[1].key = StrKey("1")
    /\ history.turns[2].key = IntKey(2)
    /\ disk[chat_title].kind = "json"
    /\ Len(disk[chat_title].object.turns) = 2

\* C12: history_index is 0 in a fresh history and the saved value in a
\* loaded one; each update_history call adds exactly 1 to it; no other step
\* of a session changes it, and a completed update_history saves it.
C12_IndexSteps ==
    [][ /\ (pc = "try" /\ pc' = "AwaitingPrompt") =>
              history'.history_index =
                  IF HasRecord(disk[chat_title'])
                  THEN disk[chat_title'].object.history_index ELSE 0
        /\ pc = "Responded" =>
              history'.history_index = history.history_index + 1
        /\ (pc = "Responded" /\ pc' = "Updated") =>
              disk'[chat_title].object.history_index = history'.history_index
        /\ pc \notin {"try", "Responded", "Done"} =>
              /\ history'.history_index = history.history_index
              /\ disk' = disk ]_vars

\* C12 witness: a session resumed at index 1 has completed an update
C12_Witness ==
    /\ runs = 2
    /\ pc = "Written"
    /\ history_index = 1
    /\ asked = 1
    /\ history.history_index = 2

Starting == Info("Starting Gemini Client...")

\* C13: in every run, once main is past its first statement the first log
\* entry is 'Starting Gemini Client...', logged before start_chat was
\* invoked; a run is only ever beyond the try entry through start_chat; and
\* when start_chat returned normally the log holds nothing else: neither
\* 'Chat ended successfully.' nor a critical entry.
C13_StartLoggedFirst ==
    /\ pc # "main" => (Len(log) >= 1 /\ log[1] = Starting)
    /\ pc = "try" => (log = <<Starting>> /\ chat_title = "" /\ exc = "none")
    /\ pc \notin {"main", "try"} => (gemini = "Mock" \/ chat_title \in Titles)
    /\ (pc \in {"return", "Done"} /\ exc = "none") => log = <<Starting>>

\* C13 witness: start_chat of an injected client returned and main is done
C13_Witness ==
    /\ pc = "Done"
    /\ gemini = "Mock"
    /\ exc = "none"
    /\ log = <<Starting>>

\* C14: in every session, resumed at any index k or fresh, update_history
\* returns "continue" on the first L-1 turns of the session and "exit" on
\* exactly its L-th, L being the effective limit; no turn follows the L-th.
C14_TurnLimitPerSession ==
    pc = "Updated" =>
        /\ history_index = Len(history.turns) - asked
        /\ asked <= questions
        /\ asked < questions => status = "continue"
        /\ asked = questions => status = "exit"

\* C14 witness: a session resumed from a record of one turn, with limit 2,
\* got "exit" on its second turn
C14_Witness ==
    /\ pc = "Updated"
    /\ runs = 2
    /\ history_index = 1
    /\ questions = 2
    /\ asked = 2
    /\ status = "exit"

\* C15: a turn whose remote call fails leaves no trace: reading the prompt
\* and the failing call append no turn and leave history_index, the context,
\* the saved record and the side file as they were; the failure is not
\* handled in the session but reaches main, which logs it as critical.
C15_RemoteFailureNoTrace ==
    [][ /\ ((pc = "AwaitingPrompt" /\ pc' = "Processing")
              \/ (pc = "Processing" /\ pc' = "except")) =>
              /\ history' = history
              /\ context' = context
              /\ asked' = asked
              /\ disk' = disk
              /\ response_file' = response_file
        /\ (pc = "Processing" /\ pc' # "Responded") =>
              (pc' = "except" /\ exc' = "Exception")
        /\ (pc = "except" /\ exc = "Exception") =>
              /\ pc' = "Done"
              /\ log' = Append(log, Critical)
              /\ disk' = disk
              /\ response_file' = response_file ]_vars

\* C15 witness: after one stored turn the remote call of the second turn
\* failed; the history still holds the one turn and the record is unchanged
C15_Witness ==
    /\ pc = "except"
    /\ exc = "Exception"
    /\ asked = 1
    /\ Len(history.turns) = 1
    /\ prompt # history.turns[1].value.prompt
    /\ disk[chat_title] = JsonFile(JsonDump(history))
    /\ response_file = TextFile(history.turns[1].value.response)

\* the limit a session enforces
EffectiveLimit == IF questions_arg < 1 THEN 1 ELSE questions_arg

\* C16: a remote call is made only out of Processing, the n-th of a session
\* with n-1 turns completed, and that never happens with L turns completed:
\* at most L calls are made. Once update_history has returned "exit" the
\* session only writes the side file and terminates: no prompt is read, no
\* remote call made, no turn appended.
C16_LimitAbsorbing ==
    [][ /\ (gemini = "Client" /\ pc' \in {"AwaitingPrompt", "Processing"}) =>
              asked' < EffectiveLimit
        /\ asked' <= EffectiveLimit
        /\ (status = "exit" /\ pc # "Done") =>
              /\ pc' \in {"Written", "Terminated", "except", "Done"}
              /\ history' = history
              /\ context' = context
              /\ text' = text
              /\ prompt' = prompt
              /\ response' = response
              /\ asked' = asked
              /\ prompts' = prompts
              /\ disk' = disk
        /\ pc = "Terminated" => pc' = "Done" ]_vars

\* C16 witness: a session with limit 2 terminated on its second turn
C16_Witness ==
    /\ pc = "Terminated"
    /\ status = "exit"
    /\ questions = 2
    /\ asked = 2
    /\ prompts = 2

\* the turn stored last in a history
LastTurn(h) == h.turns[Len(h.turns)]

\* C18: the side file is written only after update_history has saved the
\* turn, and the exit test comes after the write and changes no file; so
\* when a session awaits a prompt after a turn, or is Terminated, the side
\* file holds the response of the turn stored at index history_index.
C18_SideFileAfterSave ==
    [][ /\ pc = "Updated" =>
              /\ pc' \in {"Written", "except"}
              /\ disk' = disk
              /\ disk[chat_title].kind = "json"
              /\ LastTurn(disk[chat_title].object).value = TurnValue(prompt, response)
        /\ response_file' # response_file => pc = "Updated"
        /\ pc = "Written" =>
              /\ pc' \in {"AwaitingPrompt", "Terminated"}
              /\ response_file' = response_file
              /\ disk' = disk
        /\ (pc' \in {"AwaitingPrompt", "Terminated"} /\ asked' >= 1) =>
              /\ LastTurn(history').key.val = ToString(history'.history_index)
              /\ response_file' = TextFile(LastTurn(history').value.response) ]_vars

\* C18 witness: the session terminated on the limit-reaching turn and the
\* side file holds the response of that turn
C18_Witness ==
    /\ pc = "Terminated"
    /\ status = "exit"
    /\ asked >= 1
    /\ response_file = TextFile("hello")
    /\ LastTurn(history).value.response = "hello"

\* C19 (as claimed): after the load, the context list of the session is the
\* sequence of the current entries of the history, in insertion order.
C19_ContextIsHistoryItems ==
    pc \in {"AwaitingPrompt", "Processing", "Responded", "Updated", "Written",
            "Terminated"} => context = Items(history)

\* C17 (as claimed): when input() always returns a prompt, every remote call
\* returns and every save succeeds, a session that awaits a prompt
\* eventually reaches Terminated.
C17_SessionTerminates == (pc = "AwaitingPrompt") ~> (pc = "Terminated")

====
